---- MODULE Spec2Model ----
(***************************************************************************)
(* A model of src/index.js: the action's run() function, its helper        *)
(* getCommandOutput and formatBlock, and the @actions/core and             *)
(* @actions/exec calls it makes.                                           *)
(*                                                                         *)
(* Text is a sequence of one-character strings, so that trim, split,      *)
(* padStart and substring are computed and not assumed.                    *)
(*                                                                         *)
(* run() is an async function: it runs synchronously from one await to    *)
(* the next.  Each action below is one such stretch of code (or a part of *)
(* one, cut at a branch); pc names the statement the run is at.           *)
(***************************************************************************)
EXTENDS Integers, Sequences, FiniteSets

VARIABLES
    pc,                 \* where run() is: a statement label, or "done"
    now,                \* new Date(): the UTC getters' values (line 42)
    inputs,             \* the action's inputs, as core.getInput reads them
    env,                \* process.env
    osRelease,          \* /etc/os-release: "absent", "readable", "unreadable"
    showExtendedInfo,   \* const showExtendedInfo (line 38)
    timestamp,          \* const timestamp (line 49)
    groups,             \* log groups open: core.startGroup / core.endGroup
    log,                \* console.log lines, in order
    warnings,           \* core.warning calls, in order
    outputs,            \* core.setOutput calls, in order
    failed,             \* core.setFailed calls, in order
    issued,             \* external commands handed to exec.exec, in order
    inflight,           \* external commands started and not yet completed
    awaited,            \* the await most recently settled: its command and value
    thrown              \* history: the errors raised inside run(), in order

vars == <<pc, now, inputs, env, osRelease, showExtendedInfo, timestamp, groups,
          log, warnings, outputs, failed, issued, inflight, awaited, thrown>>

config == <<now, inputs, env, osRelease>>

----------------------------------------------------------------------------
(* Bounds of the model *)

\* longest raw text a command writes to its standard output
MaxTextLen == 1
\* longest raw text a command writes to its standard error
MaxErrLen == 1
\* largest exit code a command returns
MaxExitCode == 1

----------------------------------------------------------------------------
(* Text *)

NL == "\n"
Whitespace == {" ", NL}

\* String.prototype.trim
RECURSIVE TrimStart(_)
TrimStart(s) ==
    IF s # <<>> /\ Head(s) \in Whitespace THEN TrimStart(Tail(s)) ELSE s

RECURSIVE TrimEnd(_)
TrimEnd(s) ==
    IF s # <<>> /\ s[Len(s)] \in Whitespace
    THEN TrimEnd(SubSeq(s, 1, Len(s) - 1)) ELSE s

Trim(s) == TrimEnd(TrimStart(s))

\* String.prototype.split('\n'): the pieces between newlines (never empty)
RECURSIVE SplitLines(_, _)
SplitLines(s, cur) ==
    IF s = <<>> THEN <<cur>>
    ELSE IF Head(s) = NL THEN <<cur>> \o SplitLines(Tail(s), <<>>)
    ELSE SplitLines(Tail(s), Append(cur, Head(s)))

\* Array.prototype.join('\n')
RECURSIVE JoinLines(_)
JoinLines(ls) ==
    IF Len(ls) = 0 THEN <<>>
    ELSE IF Len(ls) = 1 THEN ls[1]
    ELSE ls[1] \o <<NL>> \o JoinLines(Tail(ls))

\* formatBlock(text, indent): every line of text prefixed with indent
formatBlock(text, indent) ==
    LET ls == SplitLines(text, <<>>)
    IN  JoinLines([i \in 1..Len(ls) |-> indent \o ls[i]])

Digits == <<"0", "1", "2", "3", "4", "5", "6", "7", "8", "9">>

\* String(n) for a non-negative integer
RECURSIVE StringOfNumber(_)
StringOfNumber(n) ==
    IF n < 10 THEN <<Digits[n + 1]>>
    ELSE StringOfNumber(n \div 10) \o <<Digits[(n % 10) + 1]>>

\* String.prototype.padStart(targetLength, padString), padString one character
RECURSIVE padStart(_, _, _)
padStart(s, targetLength, padChar) ==
    IF Len(s) >= targetLength THEN s
    ELSE padStart(<<padChar>> \o s, targetLength, padChar)

\* the width the timestamp's components are padded to
PadWidth == 2

\* the zero-based month printed as it is
MonthNumberZeroBased(d) == d.month

\* the month as printed: getUTCMonth() is zero-based
MonthNumber(d) == d.month + 1

\* lines 43-49: `${year}-${month}-${day} ${hours}:${minutes}:${seconds} UTC`
FormatTimestamp(d) ==
    LET year    == d.year
        month   == padStart(StringOfNumber(MonthNumber(d)), PadWidth, "0")
        day     == padStart(StringOfNumber(d.date), PadWidth, "0")
        hours   == padStart(StringOfNumber(d.hours), PadWidth, "0")
        minutes == padStart(StringOfNumber(d.minutes), PadWidth, "0")
        seconds == padStart(StringOfNumber(d.seconds), PadWidth, "0")
    IN  StringOfNumber(year) \o <<"-">> \o month \o <<"-">> \o day \o <<" ">>
        \o hours \o <<":">> \o minutes \o <<":">> \o seconds
        \o <<" ", "U", "T", "C">>

----------------------------------------------------------------------------
(* External commands *)

\* the command lines the run hands to exec.exec
LsbRelease  == "lsb_release -a"
SwVers      == "sw_vers"
PowerShell  == "powershell Get-ComputerInfo"
GitConfig   == "git config safe.directory"
GitBranch   == "git rev-parse --abbrev-ref HEAD"
GitSha      == "git rev-parse HEAD"
GitAuthor   == "git log author"
GitDate     == "git log date"
GitRemote   == "git remote get-url origin"
GitTags     == "git tag --points-at HEAD"
GitMessage  == "git log message"
JavaVersion == "java -version"
Tree        == "tree"
WinTree     == "cmd /c tree"

\* what a child process writes to its standard output and to its standard
\* error: the texts over these characters, up to a length
OutChars == {"a", NL}
ErrChars == {"e", NL}
Texts(chars, n) == UNION {[1..k -> chars] : k \in 0..n}

\* The error stream is read of java -version alone (line 132): what any
\* other command writes to it changes nothing the run does, and is left
\* empty.
ErrTexts(command) ==
    IF command = JavaVersion THEN Texts(ErrChars, MaxErrLen) ELSE {<<>>}

\* What can become of a command handed to exec.exec: the executable cannot
\* be located or started, or it runs, writes to its streams and exits.
Outcomes(command) ==
    { [started |-> FALSE, exitCode |-> 0, out |-> <<>>, err |-> <<>>] }
    \cup
    [started : {TRUE}, exitCode : 0..MaxExitCode,
     out : Texts(OutChars, MaxTextLen), err : ErrTexts(command)]

\* exec.exec(command, args, options): resolves with the exit code, or
\* rejects.  It rejects when the executable cannot be located or started
\* (the rejection the catch of lines 154-157 is written for), and, unless
\* options.ignoreReturnCode is set (line 17; it is not at line 94), when the
\* exit code is not 0.
ExecExec(command, o, ignoreReturnCode) ==
    IF ~o.started
    THEN [raised |-> TRUE, error |-> [kind |-> "not started", command |-> command]]
    ELSE IF o.exitCode # 0 /\ ~ignoreReturnCode
    THEN [raised |-> TRUE, error |-> [kind |-> "exit code", command |-> command]]
    ELSE [raised |-> FALSE, exitCode |-> o.exitCode]

\* getCommandOutput(command, args): the CommandResult, or the rejection of
\* exec.exec, which it does not handle
getCommandOutput(command, o) ==
    LET exitCode == ExecExec(command, o, TRUE)
    IN  IF exitCode.raised THEN exitCode
        ELSE [raised |-> FALSE, stdout |-> Trim(o.out), stderr |-> Trim(o.err),
              exitCode |-> exitCode.exitCode]

----------------------------------------------------------------------------
(* Logging *)

Line(tag, text) == [line |-> tag, text |-> text]

NA == <<"N", "/", "A">>

\* the default indent of formatBlock and the indents the run passes
BlockIndent   == <<" ", ">", " ">>
VersionIndent == <<"-", "-", ">", " ">>
PlainIndent   == <<" ", " ">>

StartGroup(name) == Append(groups, <<"start", name>>)
\* an endGroup that is not called
EndGroupMissing(g) == g

EndGroup(g) == Append(g, <<"end">>)

\* the number of groups open after the calls in g
RECURSIVE Depth(_)
Depth(g) ==
    IF g = <<>> THEN 0
    ELSE Depth(SubSeq(g, 1, Len(g) - 1))
         + (IF g[Len(g)][1] = "start" THEN 1 ELSE -1)

\* a catch that swallows the error
CatchSwallow(error) ==
    /\ thrown' = Append(thrown, error)
    /\ failed' = failed
    /\ pc' = "done"

\* lines 162-164: the top-level catch
Catch(error) ==
    /\ thrown' = Append(thrown, error)
    /\ failed' = Append(failed, error)
    /\ pc' = "done"

\* `r.exitCode === 0 && r.stdout`: the test of lines 76, 81, 85, 141, 146
HasOutput(r) == r.exitCode = 0 /\ r.stdout # <<>>

----------------------------------------------------------------------------
(* The inputs of a run *)

\* a Date's UTC getters: year, zero-based month, day, hours, minutes, seconds
Example ==
    [year |-> 2024, month |-> 2, date |-> 5, hours |-> 7, minutes |-> 2,
     seconds |-> 9]

\* the instant a run of the whole action starts at
Instants == {Example}

RunnerOS == {"Linux", "macOS", "Windows", "Other"}

\* an environment variable that is unset reads as "" here (both are falsy)
Environments ==
    [RUNNER_OS : RunnerOS, GITHUB_WORKSPACE : {"", "/ws"},
     GITHUB_REF_NAME : {"", "main"}, GITHUB_SHA : {"", "0123456789abcdef"}]

Inputs == [show_extended_info : {"true", "false", ""}]

\* the state a run starts in, whatever its inputs
Fresh ==
    /\ pc = "start"
    /\ showExtendedInfo = FALSE
    /\ timestamp = <<>>
    /\ groups = <<>>
    /\ log = <<>>
    /\ warnings = <<>>
    /\ outputs = <<>>
    /\ failed = <<>>
    /\ issued = <<>>
    /\ inflight = {}
    /\ awaited = [command |-> "none", value |-> [raised |-> FALSE]]
    /\ thrown = <<>>

Init ==
    /\ now \in Instants
    /\ inputs \in Inputs
    /\ env \in Environments
    \* /etc/os-release is looked at on a Linux runner only
    /\ osRelease \in IF env.RUNNER_OS = "Linux"
                     THEN {"absent", "readable", "unreadable"} ELSE {"absent"}
    /\ Fresh

----------------------------------------------------------------------------
(* 1. Timestamp (lines 38-52) *)

GenerateTimestamp ==
    /\ pc = "start"
    /\ showExtendedInfo' = (inputs.show_extended_info = "true")
    /\ timestamp' = FormatTimestamp(now)
    /\ outputs' = Append(outputs,
                         [name |-> "formatted_run_timestamp",
                          value |-> FormatTimestamp(now)])
    /\ groups' = EndGroup(StartGroup("Generating Timestamp"))
    /\ log' = Append(log, Line("Generated Timestamp", FormatTimestamp(now)))
    /\ pc' = "os"
    /\ UNCHANGED <<config, warnings, failed, issued, inflight, awaited, thrown>>

----------------------------------------------------------------------------
(* 2. Operating system details (lines 55-88) *)

\* lines 56-63
OSHeader ==
    <<Line("====", <<>>), Line("ACTION TIME", timestamp),
      Line("KERNEL INFO", <<>>), Line("ARCHITECTURE", <<>>),
      Line("RUNNER OS", <<>>), Line("HOSTNAME", <<>>),
      Line("TOTAL MEMORY", <<>>), Line("FREE MEMORY", <<>>)>>

\* the text lines 69-73 extract from /etc/os-release (its content is not
\* modelled)
OsReleaseText == <<"f">>

\* the command the branch of lines 66-86 issues, if any
OSProbe ==
    CASE env.RUNNER_OS = "Linux" /\ osRelease = "absent" -> LsbRelease
      [] env.RUNNER_OS = "macOS" -> SwVers
      [] env.RUNNER_OS = "Windows" -> PowerShell
      [] OTHER -> "none"

\* Linux with /etc/os-release: lines 68-73, 78, 87-88.  readFileSync throws
\* when the file exists and cannot be read.
OSReadRelease ==
    /\ pc = "os"
    /\ env.RUNNER_OS = "Linux"
    /\ osRelease # "absent"
    /\ IF osRelease = "unreadable"
       THEN /\ Catch([kind |-> "fs", command |-> "readFileSync"])
            /\ groups' = StartGroup("Operating System Details")
            /\ log' = log \o OSHeader
       ELSE /\ groups' = EndGroup(StartGroup("Operating System Details"))
            /\ log' = log \o OSHeader
                      \o <<Line("DISTRO INFO", OsReleaseText), Line("====", <<>>)>>
            /\ pc' = "git"
            /\ UNCHANGED <<failed, thrown>>
    /\ UNCHANGED <<config, showExtendedInfo, timestamp, warnings, outputs,
                   issued, inflight, awaited>>

\* lines 75, 80, 84: the probe is issued and awaited
OSProbeIssue ==
    /\ pc = "os"
    /\ OSProbe # "none"
    /\ groups' = StartGroup("Operating System Details")
    /\ log' = log \o OSHeader
    /\ issued' = Append(issued, OSProbe)
    /\ inflight' = inflight \cup {OSProbe}
    /\ pc' = OSProbe
    /\ UNCHANGED <<config, showExtendedInfo, timestamp, warnings, outputs,
                   failed, awaited, thrown>>

\* what lines 76-78, 81, 85 log of the probe's result r
OSProbeLines(r) ==
    CASE env.RUNNER_OS = "Linux" ->
            <<Line("DISTRO INFO",
                   IF HasOutput(r)
                   THEN <<NL>> \o formatBlock(r.stdout, BlockIndent) ELSE NA)>>
      [] env.RUNNER_OS = "macOS" ->
            IF HasOutput(r)
            THEN <<Line("MACOS VERSION", formatBlock(r.stdout, BlockIndent))>>
            ELSE <<>>
      [] OTHER ->
            IF HasOutput(r)
            THEN <<Line("WINDOWS DETAILS", formatBlock(r.stdout, BlockIndent))>>
            ELSE <<>>

OSProbeDone ==
    /\ pc \in {LsbRelease, SwVers, PowerShell}
    /\ \E o \in Outcomes(pc) :
         LET r == getCommandOutput(pc, o)
         IN  /\ inflight' = inflight \ {pc}
             /\ awaited' = [command |-> pc, value |-> r]
             /\ IF r.raised
                THEN /\ Catch(r.error)
                     /\ UNCHANGED <<groups, log>>
                ELSE /\ log' = log \o OSProbeLines(r) \o <<Line("====", <<>>)>>
                     /\ groups' = EndGroup(groups)
                     /\ pc' = "git"
                     /\ UNCHANGED <<failed, thrown>>
    /\ UNCHANGED <<config, showExtendedInfo, timestamp, warnings, outputs, issued>>

\* any other runner OS: lines 87-88
OSNoProbe ==
    /\ pc = "os"
    /\ env.RUNNER_OS \notin {"Linux", "macOS", "Windows"}
    /\ groups' = EndGroup(StartGroup("Operating System Details"))
    /\ log' = log \o OSHeader \o <<Line("====", <<>>)>>
    /\ pc' = "git"
    /\ UNCHANGED <<config, showExtendedInfo, timestamp, warnings, outputs,
                   failed, issued, inflight, awaited, thrown>>

----------------------------------------------------------------------------
(* 3. Git repository details (lines 91-120) *)

\* const workspace = process.env.GITHUB_WORKSPACE (line 92)
workspace == env.GITHUB_WORKSPACE

\* lines 91-94: the workspace is known, git config is issued and awaited.
\* This call goes to exec.exec directly, with no options.
GitConfigIssue ==
    /\ pc = "git"
    /\ workspace # ""
    /\ groups' = StartGroup("Git Repository Details")
    /\ issued' = Append(issued, GitConfig)
    /\ inflight' = inflight \cup {GitConfig}
    /\ pc' = GitConfig
    /\ UNCHANGED <<config, showExtendedInfo, timestamp, log, warnings, outputs,
                   failed, awaited, thrown>>

\* lines 94-95
GitConfigDone ==
    /\ pc = GitConfig
    /\ \E o \in Outcomes(pc) :
         LET r == ExecExec(GitConfig, o, FALSE)
         IN  /\ inflight' = inflight \ {GitConfig}
             /\ awaited' = [command |-> pc, value |-> r]
             /\ IF r.raised
                THEN /\ Catch(r.error)
                     /\ UNCHANGED log
                ELSE /\ log' = Append(log, Line("Added to git safe.directory", <<>>))
                     /\ pc' = "branch"
                     /\ UNCHANGED <<failed, thrown>>
    /\ UNCHANGED <<config, showExtendedInfo, timestamp, groups, warnings,
                   outputs, issued>>

\* lines 91-93, 96-98: the workspace is not known
GitConfigSkip ==
    /\ pc = "git"
    /\ workspace = ""
    /\ groups' = StartGroup("Git Repository Details")
    /\ warnings' = Append(warnings, "GITHUB_WORKSPACE not set")
    /\ pc' = "branch"
    /\ UNCHANGED <<config, showExtendedInfo, timestamp, log, outputs, failed,
                   issued, inflight, awaited, thrown>>

\* lines 99-100
RepositoryLines == <<Line("====", <<>>), Line("REPOSITORY", <<>>)>>

\* lines 104-105, printed once the commit SHA is known
ShaLines == <<Line("COMMIT SHA", <<>>), Line("SHORT SHA", <<>>)>>

\* lines 99-102: the branch name comes from the environment
BranchFromEnv ==
    /\ pc = "branch"
    /\ env.GITHUB_REF_NAME # ""
    /\ log' = log \o RepositoryLines \o <<Line("BRANCH", <<>>)>>
    /\ pc' = "sha"
    /\ UNCHANGED <<config, showExtendedInfo, timestamp, groups, warnings,
                   outputs, failed, issued, inflight, awaited, thrown>>

\* lines 99-101: the branch name is asked of git
BranchIssue ==
    /\ pc = "branch"
    /\ env.GITHUB_REF_NAME = ""
    /\ log' = log \o RepositoryLines
    /\ issued' = Append(issued, GitBranch)
    /\ inflight' = inflight \cup {GitBranch}
    /\ pc' = GitBranch
    /\ UNCHANGED <<config, showExtendedInfo, timestamp, groups, warnings,
                   outputs, failed, awaited, thrown>>

\* lines 101-102
BranchDone ==
    /\ pc = GitBranch
    /\ \E o \in Outcomes(pc) :
         LET r == getCommandOutput(GitBranch, o)
         IN  /\ inflight' = inflight \ {GitBranch}
             /\ awaited' = [command |-> pc, value |-> r]
             /\ IF r.raised
                THEN /\ Catch(r.error)
                     /\ UNCHANGED log
                ELSE /\ log' = Append(log, Line("BRANCH", <<>>))
                     /\ pc' = "sha"
                     /\ UNCHANGED <<failed, thrown>>
    /\ UNCHANGED <<config, showExtendedInfo, timestamp, groups, warnings,
                   outputs, issued>>

\* lines 103-107: the commit SHA comes from the environment; the author
\* query is issued
ShaFromEnv ==
    /\ pc = "sha"
    /\ env.GITHUB_SHA # ""
    /\ log' = log \o ShaLines
    /\ issued' = Append(issued, GitAuthor)
    /\ inflight' = inflight \cup {GitAuthor}
    /\ pc' = GitAuthor
    /\ UNCHANGED <<config, showExtendedInfo, timestamp, groups, warnings,
                   outputs, failed, awaited, thrown>>

\* line 103: the commit SHA is asked of git
ShaIssue ==
    /\ pc = "sha"
    /\ env.GITHUB_SHA = ""
    /\ issued' = Append(issued, GitSha)
    /\ inflight' = inflight \cup {GitSha}
    /\ pc' = GitSha
    /\ UNCHANGED <<config, showExtendedInfo, timestamp, groups, log, warnings,
                   outputs, failed, awaited, thrown>>

\* a remote query that is issued again after it returns
NextQueryRetry(command) ==
    CASE command = GitSha    -> GitAuthor
      [] command = GitAuthor -> GitDate
      [] command = GitDate   -> GitRemote
      [] command = GitRemote -> GitRemote
      [] command = GitTags   -> GitMessage
      [] OTHER               -> "none"

\* The queries of lines 103-116 in the order the run issues them, each with
\* the command issued after it ("none" after the last).
NextQuery(command) ==
    CASE command = GitSha    -> GitAuthor
      [] command = GitAuthor -> GitDate
      [] command = GitDate   -> GitRemote
      [] command = GitRemote -> GitTags
      [] command = GitTags   -> GitMessage
      [] OTHER               -> "none"

\* line 113: .replace(/\n/g, ',').replace(/,$/, '')
TagList(stdout) ==
    LET joined == [i \in 1..Len(stdout) |->
                      IF stdout[i] = NL THEN "," ELSE stdout[i]]
    IN  IF joined # <<>> /\ joined[Len(joined)] = ","
        THEN SubSeq(joined, 1, Len(joined) - 1) ELSE joined

\* `text || 'N/A'` (lines 111, 113)
OrNA(text) == IF text # <<>> THEN text ELSE NA

\* what lines 104-119 log of the result r of a query
QueryLines(command, r) ==
    CASE command = GitSha     -> ShaLines
      [] command = GitAuthor  -> <<Line("AUTHOR", <<>>)>>
      [] command = GitDate    -> <<Line("COMMIT DATE", <<>>)>>
      [] command = GitRemote  -> <<Line("REMOTE URL", OrNA(r.stdout))>>
      [] command = GitTags    ->
            <<Line("TAGS AT HEAD", OrNA(TagList(r.stdout))), Line("", <<>>)>>
      [] OTHER ->
            <<Line("COMMIT MESSAGE", <<>>), Line("commit message block", <<>>),
              Line("====", <<>>)>>

\* lines 103-120: a query returns, its line is logged, and the next query is
\* issued; after the last one the group is closed
QueryDone ==
    /\ pc \in {GitSha, GitAuthor, GitDate, GitRemote, GitTags, GitMessage}
    /\ \E o \in Outcomes(pc) :
         LET r == getCommandOutput(pc, o)
         IN  /\ awaited' = [command |-> pc, value |-> r]
             /\ IF r.raised
                THEN /\ Catch(r.error)
                     /\ inflight' = inflight \ {pc}
                     /\ UNCHANGED <<groups, log, issued>>
                ELSE /\ log' = log \o QueryLines(pc, r)
                     /\ UNCHANGED <<failed, thrown>>
                     /\ IF NextQuery(pc) = "none"
                        THEN /\ groups' = EndGroup(groups)
                             /\ inflight' = inflight \ {pc}
                             /\ pc' = "extended"
                             /\ UNCHANGED issued
                        ELSE /\ issued' = Append(issued, NextQuery(pc))
                             /\ inflight' = (inflight \ {pc}) \cup {NextQuery(pc)}
                             /\ pc' = NextQuery(pc)
                             /\ UNCHANGED groups
    /\ UNCHANGED <<config, showExtendedInfo, timestamp, warnings, outputs>>

----------------------------------------------------------------------------
(* 4. Java and directory tree (lines 124-160) *)

\* line 124: the flag is off, the run ends
ExtendedSkip ==
    /\ pc = "extended"
    /\ ~showExtendedInfo
    /\ pc' = "done"
    /\ UNCHANGED <<config, showExtendedInfo, timestamp, groups, log, warnings,
                   outputs, failed, issued, inflight, awaited, thrown>>

\* lines 124-128
JavaIssue ==
    /\ pc = "extended"
    /\ showExtendedInfo
    /\ groups' = StartGroup("Java Environment & Directory Structure")
    /\ log' = log \o <<Line("======", <<>>), Line("JAVA DETAILS", <<>>)>>
    /\ issued' = Append(issued, JavaVersion)
    /\ inflight' = inflight \cup {JavaVersion}
    /\ pc' = JavaVersion
    /\ UNCHANGED <<config, showExtendedInfo, timestamp, warnings, outputs,
                   failed, awaited, thrown>>

\* line 130: the test that java was found
JavaFound(r) == r.exitCode = 0 /\ (r.stdout # <<>> \/ r.stderr # <<>>)

\* the standard output preferred to the error stream
JavaTextStdoutFirst(r) == IF r.stdout # <<>> THEN r.stdout ELSE r.stderr

\* line 132: javaVersionCmd.stderr || javaVersionCmd.stdout
JavaText(r) == IF r.stderr # <<>> THEN r.stderr ELSE r.stdout

\* lines 130-138
JavaLines(r) ==
    ( IF JavaFound(r)
      THEN <<Line("Version:", <<>>),
             Line("version block", formatBlock(JavaText(r), VersionIndent)),
             Line("JAVA_HOME", <<>>)>>
      ELSE <<Line("Java not found", <<>>)>> )
    \o <<Line("", <<>>), Line("DIRECTORY TREE", <<>>)>>

\* lines 128-140: java -version returns, the tree command is issued
JavaDone ==
    /\ pc = JavaVersion
    /\ \E o \in Outcomes(pc) :
         LET r == getCommandOutput(JavaVersion, o)
         IN  /\ awaited' = [command |-> pc, value |-> r]
             /\ IF r.raised
                THEN /\ Catch(r.error)
                     /\ inflight' = inflight \ {JavaVersion}
                     /\ UNCHANGED <<log, issued>>
                ELSE /\ log' = log \o JavaLines(r)
                     /\ issued' = Append(issued, Tree)
                     /\ inflight' = (inflight \ {JavaVersion}) \cup {Tree}
                     /\ pc' = Tree
                     /\ UNCHANGED <<failed, thrown>>
    /\ UNCHANGED <<config, showExtendedInfo, timestamp, groups, warnings,
                   outputs>>

\* lines 154-157: the catch of the tree probe
TreeCatch(error) ==
    /\ thrown' = Append(thrown, error)
    /\ warnings' = Append(warnings, "Tree command execution error")
    /\ log' = log \o <<Line("Error executing tree command", <<>>),
                       Line("======", <<>>)>>

\* the fallback taken on every runner OS
UseWinTreeAnyOS(r) == ~HasOutput(r)

\* line 143: the tree command gave nothing and the runner is Windows
UseWinTree(r) == ~HasOutput(r) /\ env.RUNNER_OS = "Windows"

\* lines 140-159: the tree command returns
TreeDone ==
    /\ pc = Tree
    /\ \E o \in Outcomes(pc) :
         LET r == getCommandOutput(Tree, o)
         IN  /\ awaited' = [command |-> pc, value |-> r]
             /\ IF r.raised
                THEN /\ TreeCatch(r.error)
                     /\ groups' = EndGroup(groups)
                     /\ inflight' = inflight \ {Tree}
                     /\ pc' = "done"
                     /\ UNCHANGED issued
                ELSE IF UseWinTree(r)
                THEN /\ log' = Append(log, Line("Using cmd /c tree", <<>>))
                     /\ issued' = Append(issued, WinTree)
                     /\ inflight' = (inflight \ {Tree}) \cup {WinTree}
                     /\ pc' = WinTree
                     /\ UNCHANGED <<groups, warnings, thrown>>
                ELSE /\ log' = log \o
                          <<IF HasOutput(r)
                            THEN Line("tree block", formatBlock(r.stdout, PlainIndent))
                            ELSE Line("tree not found or failed", <<>>),
                            Line("======", <<>>)>>
                     /\ groups' = EndGroup(groups)
                     /\ inflight' = inflight \ {Tree}
                     /\ pc' = "done"
                     /\ UNCHANGED <<issued, warnings, thrown>>
    /\ UNCHANGED <<config, showExtendedInfo, timestamp, outputs, failed>>

\* lines 145-159: the Windows tree command returns
WinTreeDone ==
    /\ pc = WinTree
    /\ \E o \in Outcomes(pc) :
         LET r == getCommandOutput(WinTree, o)
         IN  /\ awaited' = [command |-> pc, value |-> r]
             /\ IF r.raised
                THEN TreeCatch(r.error)
                ELSE /\ log' = log \o
                          <<IF HasOutput(r)
                            THEN Line("tree block", formatBlock(r.stdout, PlainIndent))
                            ELSE Line("Windows tree also failed", <<>>),
                            Line("======", <<>>)>>
                     /\ UNCHANGED <<warnings, thrown>>
    /\ groups' = EndGroup(groups)
    /\ inflight' = inflight \ {WinTree}
    /\ pc' = "done"
    /\ UNCHANGED <<config, showExtendedInfo, timestamp, outputs, failed, issued>>

----------------------------------------------------------------------------

Next ==
    \/ GenerateTimestamp
    \/ OSReadRelease
    \/ OSProbeIssue
    \/ OSProbeDone
    \/ OSNoProbe
    \/ GitConfigIssue
    \/ GitConfigDone
    \/ GitConfigSkip
    \/ BranchFromEnv
    \/ BranchIssue
    \/ BranchDone
    \/ ShaFromEnv
    \/ ShaIssue
    \/ QueryDone
    \/ ExtendedSkip
    \/ JavaIssue
    \/ JavaDone
    \/ TreeDone
    \/ WinTreeDone

Spec == Init /\ [][Next]_vars

----------------------------------------------------------------------------
(* The timestamp over the range of each of its components *)

\* Every value of each UTC getter, the other components being those of
\* Example; years below and above the four-digit ones are among them.
ComponentInstants ==
    {[Example EXCEPT !.year = y] : y \in {999, 1000, 1970, 2024, 9999, 10000}}
    \cup {[Example EXCEPT !.month = m] : m \in 0..11}
    \cup {[Example EXCEPT !.date = d] : d \in 1..31}
    \cup {[Example EXCEPT !.hours = h] : h \in 0..23}
    \cup {[Example EXCEPT !.minutes = m] : m \in 0..59}
    \cup {[Example EXCEPT !.seconds = x] : x \in 0..59}
    \cup {[year |-> 9999, month |-> 11, date |-> 31, hours |-> 23,
           minutes |-> 59, seconds |-> 59]}

\* a macOS runner with the workspace, the ref name and the SHA set, the
\* extended-info flag off
InitTimestamp ==
    /\ now \in ComponentInstants
    /\ inputs = [show_extended_info |-> "false"]
    /\ env = [RUNNER_OS |-> "macOS", GITHUB_WORKSPACE |-> "/ws",
              GITHUB_REF_NAME |-> "main", GITHUB_SHA |-> "0123456789abcdef"]
    /\ osRelease = "absent"
    /\ Fresh

\* the run on that runner, as far as the end of the repository inspector
\* (and to the end of the run when the extended-info flag is off)
NextTimestamp ==
    \/ GenerateTimestamp
    \/ OSProbeIssue
    \/ OSProbeDone
    \/ GitConfigIssue
    \/ GitConfigDone
    \/ BranchFromEnv
    \/ ShaFromEnv
    \/ QueryDone
    \/ ExtendedSkip

SpecTimestamp == InitTimestamp /\ [][NextTimestamp]_vars

----------------------------------------------------------------------------
(* Properties *)

Count(command) == Cardinality({i \in 1..Len(issued) : issued[i] = command})
WasIssued(command) == \E i \in 1..Len(issued) : issued[i] = command
Logged(tag) == \E i \in 1..Len(log) : log[i].line = tag
Completed(command) == WasIssued(command) /\ command \notin inflight

DigitValue(c) == CHOOSE d \in 0..9 : Digits[d + 1] = c
IsDigit(c) == \E d \in 0..9 : Digits[d + 1] = c

\* the number two decimal digits at positions i, i+1 of text t denote
TwoDigits(t, i) == 10 * DigitValue(t[i]) + DigitValue(t[i + 1])

\* t is YYYY-MM-DD HH:MM:SS UTC, every component of that width
IsTimestampPattern(t) ==
    /\ Len(t) = 23
    /\ \A i \in {1, 2, 3, 4, 6, 7, 9, 10, 12, 13, 15, 16, 18, 19} : IsDigit(t[i])
    /\ t[5] = "-" /\ t[8] = "-" /\ t[11] = " " /\ t[14] = ":" /\ t[17] = ":"
    /\ SubSeq(t, 20, 23) = <<" ", "U", "T", "C">>

\* C8: for an instant with a four-digit year the timestamp is
\* YYYY-MM-DD HH:MM:SS UTC with two-digit zero-padded month, day, hour,
\* minute and second, its month is the zero-based month plus one (01..12),
\* its other components are the instant's; it is set as the output
\* formatted_run_timestamp exactly once, and no command is issued before.
C8_TimestampFormat ==
    /\ Len(outputs) <= 1
    /\ (issued # <<>> \/ pc # "start") => Len(outputs) = 1
    /\ \A i \in 1..Len(outputs) :
         /\ outputs[i].name = "formatted_run_timestamp"
         /\ outputs[i].value = timestamp
         /\ now.year \in 1000..9999 =>
              LET t == outputs[i].value
              IN  /\ IsTimestampPattern(t)
                  /\ 1000 * DigitValue(t[1]) + 100 * DigitValue(t[2])
                       + TwoDigits(t, 3) = now.year
                  /\ TwoDigits(t, 6) = now.month + 1
                  /\ TwoDigits(t, 6) \in 1..12
                  /\ TwoDigits(t, 9) = now.date
                  /\ TwoDigits(t, 12) = now.hours
                  /\ TwoDigits(t, 15) = now.minutes
                  /\ TwoDigits(t, 18) = now.seconds

\* a run in September (zero-based month 8) has set the output, with month
\* 09, and has its first command in flight
C8_Witness ==
    /\ now.month = 8
    /\ now.year \in 1000..9999
    /\ Len(outputs) = 1
    /\ SubSeq(outputs[1].value, 6, 7) = <<"0", "9">>
    /\ issued = <<SwVers>>
    /\ inflight = {SwVers}

----------------------------------------------------------------------------

\* the value v of a settled await is that of a command that exited non-zero
ExitedNonZero(v) ==
    IF v.raised THEN v.error.kind = "exit code" ELSE v.exitCode # 0

\* the commands after which the run has nothing more to issue
LastCommands == {GitMessage, Tree, WinTree}

\* C1: a non-zero exit code of any command the run issues, git config
\* included, never marks the run failed, and the run goes on to the commands
\* after it.
C1_NonZeroExitIsData ==
    (awaited.command # "none" /\ ExitedNonZero(awaited.value)) =>
        /\ failed = <<>>
        /\ pc = "done" => awaited.command \in LastCommands

\* the errors raised inside run() that the tree probe's own catch handles
CaughtByTreeProbe == {i \in 1..Len(thrown) : thrown[i].command \in {Tree, WinTree}}

\* C2 as stated: setFailed is called if and only if an error was raised
\* inside run(), at most once, and nothing is issued after it.
C2_FailedIffRaised ==
    /\ Len(failed) <= 1
    /\ (failed # <<>>) <=> (thrown # <<>>)
    /\ failed # <<>> => (pc = "done" /\ inflight = {})

\* C2 amended: setFailed is called if and only if an error raised inside
\* run() is not one the tree probe's own catch handles; it is called at most
\* once, with that error, and the command last issued is then the one that
\* raised it (none, for the file read): nothing is issued after it.  An error
\* of the tree probe is logged as a warning instead.
C2_FailedIffUncaught ==
    /\ Len(failed) <= 1
    /\ (failed # <<>>) <=> (CaughtByTreeProbe # 1..Len(thrown))
    /\ thrown = <<>> => failed = <<>>
    /\ CaughtByTreeProbe # {} => Len(warnings) >= 1
    /\ failed # <<>> =>
         /\ failed[1] = thrown[Len(thrown)]
         /\ pc = "done"
         /\ inflight = {}
         /\ IF failed[1].kind = "fs" THEN issued = <<>>
            ELSE issued # <<>> /\ issued[Len(issued)] = failed[1].command

\* a run that ended without setFailed although the remote URL degraded to
\* N/A and the tree probe raised an error
C2_Witness ==
    /\ pc = "done"
    /\ failed = <<>>
    /\ thrown # <<>>
    /\ \E i \in 1..Len(log) : log[i] = Line("REMOTE URL", NA)

\* C3: on Linux without /etc/os-release, when lsb_release is absent or exits
\* non-zero, DISTRO INFO is logged as N/A, nothing is raised, and the run
\* goes on unfailed.
C3_LsbFailureGivesNA ==
    ( /\ env.RUNNER_OS = "Linux"
      /\ osRelease = "absent"
      /\ awaited.command = LsbRelease
      /\ (awaited.value.raised \/ awaited.value.exitCode # 0) )
    => /\ \E i \in 1..Len(log) : log[i] = Line("DISTRO INFO", NA)
       /\ thrown = <<>>
       /\ failed = <<>>
       /\ pc # "done"

GroupStarted(name) == \E i \in 1..Len(groups) : groups[i] = <<"start", name>>

\* C4: with the flag off, java and tree are never issued and their group is
\* never opened; with the flag on, once the run reaches stage 4 the java
\* probe is issued, and the tree probe too whatever became of the java probe.
C4_ExtendedProbes ==
    /\ inputs.show_extended_info # "true" =>
         /\ ~WasIssued(JavaVersion)
         /\ ~WasIssued(Tree)
         /\ ~WasIssued(WinTree)
         /\ ~GroupStarted("Java Environment & Directory Structure")
    /\ (inputs.show_extended_info = "true"
        /\ GroupStarted("Java Environment & Directory Structure")) =>
         /\ WasIssued(JavaVersion)
         /\ Completed(JavaVersion) => WasIssued(Tree)

Position(command) == CHOOSE i \in 1..Len(issued) : issued[i] = command

\* the tree probe told the reader that no tree can be shown
TreeUnavailableLogged ==
    \/ Logged("tree not found or failed")
    \/ Logged("Windows tree also failed")
    \/ Logged("Error executing tree command")

\* what C5 says of the fallback whatever the primary's result: Windows only,
\* after the primary; and a message when no tree is printed
C5_Common ==
    /\ WasIssued(WinTree) =>
         /\ env.RUNNER_OS = "Windows"
         /\ Count(WinTree) = 1
         /\ WasIssued(Tree)
         /\ Position(Tree) < Position(WinTree)
         /\ Tree \notin inflight
    /\ pc = WinTree => awaited.command = Tree
    /\ (pc = "done" /\ Completed(Tree) /\ ~WasIssued(WinTree)
        /\ ~Logged("tree block")) => TreeUnavailableLogged
    /\ (pc = "done" /\ Completed(WinTree) /\ ~Logged("tree block"))
         => TreeUnavailableLogged

\* C5 as stated: cmd /c tree is issued only on Windows and only after the
\* primary tree invocation reported a non-zero exit or was absent.
C5_FallbackAfterNonZero ==
    /\ C5_Common
    /\ pc = WinTree => (awaited.value.raised \/ awaited.value.exitCode # 0)

\* C5 amended: cmd /c tree is issued only on Windows and only after the
\* primary tree invocation returned with a non-zero exit or with an empty
\* standard output (an invocation that could not be started raises, and the
\* fallback is then not issued); when no tree is printed a message says so.
C5_FallbackAfterNoOutput ==
    /\ C5_Common
    /\ pc = WinTree =>
         /\ ~awaited.value.raised
         /\ awaited.value.exitCode # 0 \/ awaited.value.stdout = <<>>
    /\ (awaited.command = Tree /\ awaited.value.raised) => ~WasIssued(WinTree)

\* on Windows the fallback is in flight after a primary that exited 0 with
\* no output
C5_Witness ==
    /\ pc = WinTree
    /\ inflight = {WinTree}
    /\ env.RUNNER_OS = "Windows"
    /\ awaited.command = Tree
    /\ awaited.value.exitCode = 0
    /\ awaited.value.stdout = <<>>

HasNewline(text) == \E i \in 1..Len(text) : text[i] = NL

VersionBlocks == {i \in 1..Len(log) : log[i].line = "version block"}

\* C6 as stated: "not found" is reported only when both streams are empty
\* (or the process did not start); otherwise a Version block is logged.
C6_NotFoundOnlyWhenEmpty ==
    (awaited.command = JavaVersion /\ ~awaited.value.raised) =>
        LET r == awaited.value
        IN  /\ Logged("Java not found") => (r.stdout = <<>> /\ r.stderr = <<>>)
            /\ (r.stdout # <<>> \/ r.stderr # <<>>) => Logged("Version:")

\* C6 amended: "not found" is reported when java -version returned a
\* non-zero exit code or both captured streams are empty; a Version block is
\* logged when it exited 0 with a stream that is not empty, and its text is
\* the error stream's when that is not empty, otherwise the standard
\* output's; when the process does not start neither is logged.
C6_JavaReport ==
    awaited.command = JavaVersion =>
        LET r == awaited.value
        IN  IF r.raised
            THEN ~Logged("Java not found") /\ ~Logged("Version:")
            ELSE /\ Logged("Java not found")
                    <=> (r.exitCode # 0 \/ (r.stdout = <<>> /\ r.stderr = <<>>))
                 /\ Logged("Version:") <=> ~Logged("Java not found")
                 /\ Logged("Version:") <=> (VersionBlocks # {})
                 /\ \A i \in VersionBlocks :
                      LET text == IF r.stderr # <<>> THEN r.stderr ELSE r.stdout
                      IN  ~HasNewline(text) => log[i].text = VersionIndent \o text

\* java -version exited 0 having written to both streams, and the Version
\* block was logged
C6_Witness ==
    /\ awaited.command = JavaVersion
    /\ ~awaited.value.raised
    /\ awaited.value.exitCode = 0
    /\ awaited.value.stdout # <<>>
    /\ awaited.value.stderr # <<>>
    /\ VersionBlocks # {}

GitQueries == {GitAuthor, GitDate, GitRemote, GitTags, GitMessage}
GitCommands == GitQueries \cup {GitConfig, GitBranch, GitSha}

\* C7: without a workspace path no git config is issued, one warning is
\* logged and the five queries are still issued; with it, git config is
\* issued exactly once, before every other git command.
C7_SafeDirectory ==
    /\ workspace = "" =>
         /\ ~WasIssued(GitConfig)
         /\ GroupStarted("Git Repository Details") =>
              Cardinality({i \in 1..Len(warnings) :
                              warnings[i] = "GITHUB_WORKSPACE not set"}) = 1
         /\ (pc = "done" /\ GroupStarted("Git Repository Details")) =>
              \A q \in GitQueries : WasIssued(q)
    /\ workspace # "" =>
         /\ GroupStarted("Git Repository Details") => Count(GitConfig) = 1
         /\ \A c \in GitCommands \ {GitConfig} :
              WasIssued(c) => Position(GitConfig) < Position(c)

NeverNested == \A k \in 0..Len(groups) : Depth(SubSeq(groups, 1, k)) \in {0, 1}

\* C10 as stated: groups never nest, and no group is open when the run has
\* ended, normally or marked failed.
C10_GroupsBalanced ==
    /\ NeverNested
    /\ pc = "done" => Depth(groups) = 0

\* C10 amended: groups never nest; no group is open when the run has ended
\* normally; the group in which the error was raised is open when the run
\* has ended marked failed.
C10_GroupsNeverNest ==
    /\ NeverNested
    /\ (pc = "done" /\ failed = <<>>) => Depth(groups) = 0
    /\ failed # <<>> => Depth(groups) = 1

\* a run that ended marked failed inside the third group, which is open
C10_Witness ==
    /\ pc = "done"
    /\ failed # <<>>
    /\ Len(groups) = 5
    /\ groups[5] = <<"start", "Git Repository Details">>
    /\ Depth(groups) = 1

====
